---- MODULE Spec2Model ----
(***************************************************************************)
(* Model of flexible_crawler.py: a coordinator thread (main) that creates  *)
(* the article_urls table, submits one crawl_page task per page to a       *)
(* ThreadPoolExecutor, consumes the futures in completion order and writes *)
(* each page's records to DuckDB with INSERT OR IGNORE under db_lock.      *)
(*                                                                         *)
(* Environment: every HTTP GET either returns a document or raises a       *)
(* RequestException; parsing may raise; duckdb.connect and conn.execute    *)
(* inside the guarded write path (lines 198-210) may raise.  The schema    *)
(* connection (152-168) and the final count (226-228), which the code does *)
(* not guard, are taken to succeed.  DuckDB runs each statement of a       *)
(* connection that issued no BEGIN in its own committed transaction, so    *)
(* rows inserted before a failing statement stay in the table.             *)
(* The column crawled_at (a wall-clock default) is left out.               *)
(***************************************************************************)
EXTENDS Integers, Sequences, FiniteSets, TLC

\* ------------------------------------------------------------------ bounds
MaxPage == 2
MaxWorkers == 2
MaxLinks == 2
MaxRuns == 2

\* ------------------------------------------------------- program constants
DefaultMaxWorkers == 10

Pages == 1..MaxPage

\* ----------------------------------------------------------------- markup
\* A value standing for "element not present" (find() returned None).
NoElem == "<none>"

NewsHost == "https://news.ruc.edu.cn/"
OtherHost == "https://www.ruc.edu.cn/"

Digits == {"0", "1", "2", "3", "4", "5", "6", "7", "8", "9"}

\* An href is host ++ ident ++ suffix; ident is a sequence of characters.
Href(host, ident, suffix) == [host |-> host, ident |-> ident, suffix |-> suffix]

Url1 == Href(NewsHost, <<"1">>, ".html")
Url2 == Href(NewsHost, <<"2">>, ".html")
Urls == {Url1, Url2}

\* The <a> elements a listing page may hold: h5 is the text of the title
\* heading, vis the text of p.visible-xs, box the div.pp-box-time with the
\* texts of its span and p; each may be absent.  A string built by an
\* f-string is the sequence of its pieces; '' is the empty sequence.
NoBox == [div |-> FALSE, span |-> NoElem, p |-> NoElem]
Box(span, p) == [div |-> TRUE, span |-> span, p |-> p]

LinkFull == [href |-> Url1, h5 |-> " T1 ", vis |-> "2024-01-05", box |-> NoBox]
LinkAlt == [href |-> Url1, h5 |-> "T2", vis |-> NoElem, box |-> Box("2024.01", "06")]
LinkBare == [href |-> Url2, h5 |-> NoElem, vis |-> NoElem, box |-> NoBox]
LinkWrongHost == [href |-> Href(OtherHost, <<"3">>, ".html"), h5 |-> "T3",
                  vis |-> "2024-01-07", box |-> NoBox]
LinkNonNumeric == [href |-> Href(NewsHost, <<"a">>, ".html"), h5 |-> "T4",
                   vis |-> "2024-01-08", box |-> NoBox]
LinkPartialBox == [href |-> Url2, h5 |-> "T5", vis |-> "", box |-> Box("2024.02", NoElem)]
\* An address written with a line break before the closing quote.
UrlNewline == Href(NewsHost, <<"4">>, ".html\n")
LinkNewline == [href |-> UrlNewline, h5 |-> "T2", vis |-> "2024-01-05", box |-> NoBox]
Links == {LinkFull, LinkAlt, LinkBare, LinkWrongHost, LinkNonNumeric, LinkPartialBox,
          LinkNewline}

\* The links the listing pages of the crawled site are made of.
SiteLinks == {LinkFull, LinkBare, LinkWrongHost}

RECURSIVE SeqsUpTo(_, _)
SeqsUpTo(S, n) ==
  IF n = 0 THEN {<<>>}
  ELSE LET shorter == SeqsUpTo(S, n - 1)
       IN shorter \cup {Append(s, x) : s \in {t \in shorter : Len(t) = n - 1}, x \in S}

\* The contents of the target div of a page: its links in document order.
Docs == SeqsUpTo(Links, MaxLinks)
SiteDocs == SeqsUpTo(SiteLinks, MaxLinks)

\* Mutant: the identifier is not required to be numeric.
MatchesHostAndSuffix(href) ==
  href.host = NewsHost /\ href.suffix \in {".html", ".html\n"}

\* re.match(r'^https://news\.ruc\.edu\.cn/\d+\.html$', href); in Python $
\* matches at the end of the string and before a newline that ends it.
MatchesDetail(href) ==
  /\ href.host = NewsHost
  /\ Len(href.ident) > 0
  /\ \A i \in 1..Len(href.ident) : href.ident[i] \in Digits
  /\ href.suffix \in {".html", ".html\n"}

\* str.strip() on the texts that occur in Links.
Strip(s) == IF s = " T1 " THEN "T1" ELSE s

\* Mutant: the title is taken without looking whether the h5 was found.
ExtractTitleUnchecked(link) == Strip(link.h5)

ExtractTitle(link) == IF link.h5 # NoElem THEN Strip(link.h5) ELSE ""

ExtractTime(link) ==
  LET t1 == IF link.vis # NoElem THEN Strip(link.vis) ELSE ""
  IN IF t1 # "" THEN <<t1>>
     ELSE IF link.box.div /\ link.box.span # NoElem /\ link.box.p # NoElem
          THEN <<link.box.span, ".", link.box.p>>
          ELSE <<>>

ExtractItem(link) ==
  [url |-> link.href, title |-> ExtractTitle(link), publish_time |-> ExtractTime(link)]

\* The loop over all_links: the matching links, in document order.
RECURSIVE ExtractItems(_)
ExtractItems(doc) ==
  IF doc = <<>> THEN <<>>
  ELSE LET rest == ExtractItems(Tail(doc))
       IN IF MatchesDetail(Head(doc).href) THEN <<ExtractItem(Head(doc))>> \o rest
          ELSE rest

\* ------------------------------------------------------------ configuration
\* A raw configuration, as yaml.safe_load returns it; an optional key that
\* the file leaves out is written AbsentUrl (firstPageUrl) or 0 (maxWorkers).
GoodTemplate == <<"list_", "{page}", ".html">>
BadTemplate == <<"list_", "{}", ".html">>
FirstUrl == <<"index.html">>
AbsentUrl == <<"<absent>">>

\* load_config: the defaults for the optional keys.
load_config(raw) ==
  [startPage |-> raw.startPage, endPage |-> raw.endPage, baseUrl |-> raw.baseUrl,
   firstPageUrl |-> IF raw.firstPageUrl = AbsentUrl THEN <<>> ELSE raw.firstPageUrl,
   maxWorkers |-> IF raw.maxWorkers = 0 THEN DefaultMaxWorkers ELSE raw.maxWorkers]

RawConfigs ==
  [startPage : Pages, endPage : 0..MaxPage, baseUrl : {GoodTemplate, BadTemplate},
   firstPageUrl : {AbsentUrl, FirstUrl}, maxWorkers : 0..MaxWorkers]

\* base_url_pattern.format(page=page) raises for a template whose field is
\* not named page.
FormatRaises(tmpl) == \E i \in 1..Len(tmpl) : tmpl[i] = "{}"
DigitStr == <<"1", "2", "3", "4", "5", "6", "7", "8", "9">>
Format(tmpl, page) ==
  [i \in 1..Len(tmpl) |-> IF tmpl[i] = "{page}" THEN DigitStr[page] ELSE tmpl[i]]

\* Mutant: the first-page address is used for every page.
UsesFirstUrlAnyPage(page, first_page_url) == first_page_url # <<>>

UsesFirstUrl(page, first_page_url) == page = 1 /\ first_page_url # <<>>
ResolveRaises(page, tmpl, first_page_url) ==
  ~UsesFirstUrl(page, first_page_url) /\ FormatRaises(tmpl)
ResolveListUrl(page, tmpl, first_page_url) ==
  IF UsesFirstUrl(page, first_page_url) THEN first_page_url ELSE Format(tmpl, page)

\* -------------------------------------------------------------------- store
Row(id, item, list_url) ==
  [id |-> id, url |-> item.url, title |-> item.title,
   publish_time |-> item.publish_time, list_url |-> list_url]

OldItem(u) == [url |-> u, title |-> "old", publish_time |-> <<"2023-12-31">>]

\* The tables a database file may hold before the run.
InitialTables ==
  { <<>>,
    <<Row(1, OldItem(Url1), <<"old_list">>)>>,
    <<Row(1, OldItem(Url2), <<"old_list">>)>>,
    <<Row(1, OldItem(Url1), <<"old_list">>), Row(2, OldItem(Url2), <<"old_list">>)>> }

RowUrls(rs) == {rs[i].url : i \in 1..Len(rs)}
ItemUrls(items) == {items[i].url : i \in 1..Len(items)}

\* Mutant: INSERT OR REPLACE, the stored row takes the new record's values.
InsertOrReplace(rs, id, item, list_url) ==
  IF item.url \in RowUrls(rs)
  THEN [i \in 1..Len(rs) |-> IF rs[i].url = item.url THEN Row(id, item, list_url)
                                                     ELSE rs[i]]
  ELSE Append(rs, Row(id, item, list_url))

\* Mutant: a plain INSERT into a table whose url column is not UNIQUE.
InsertAlways(rs, id, item, list_url) == Append(rs, Row(id, item, list_url))

\* INSERT OR IGNORE INTO article_urls (url, title, publish_time, list_url):
\* a row whose url is already in the table is dropped; id is the DEFAULT
\* nextval('article_urls_id_seq').
InsertOrIgnore(rs, id, item, list_url) ==
  IF item.url \in RowUrls(rs) THEN rs ELSE Append(rs, Row(id, item, list_url))

\* Mutant: the loop ends after its first statement.
ExecuteInsertsFirstOnly(rs, sq, items, list_url, k) ==
  IF k = 0 THEN [rows |-> rs, seq |-> sq]
  ELSE [rows |-> InsertOrIgnore(rs, sq + 1, items[1], list_url), seq |-> sq + 1]

\* The first k statements of the loop over article_urls.
RECURSIVE ExecuteInserts(_, _, _, _, _)
ExecuteInserts(rs, sq, items, list_url, k) ==
  IF k = 0 THEN [rows |-> rs, seq |-> sq]
  ELSE LET done == ExecuteInserts(rs, sq, items, list_url, k - 1)
       IN [rows |-> InsertOrIgnore(done.rows, done.seq + 1, items[k], list_url),
           seq |-> done.seq + 1]

\* -------------------------------------------------------------------- state
VARIABLES
  cfg,            \* the configuration load_config returned
  run,            \* which run of the program against this database file
  pc,             \* where main is
  hasTable,       \* article_urls and its sequence exist
  rows,           \* the rows of article_urls, in insertion order
  seq,            \* the last value of article_urls_id_seq
  rows0,          \* the rows when this run started
  nextPage,       \* the loop variable of the submit loop
  status,         \* per page: "none", "queued", "running", "done"
  outcome,        \* per page: how crawl_page ended
  result,         \* per page: what the future holds, (list_url, article_urls)
  submits,        \* per page: executor.submit calls
  gets,           \* per page: requests.get calls
  body,           \* per page: the response its task parsed, when recorded
  consumed,       \* per page: times as_completed yielded its future
  failed,         \* pages whose consumption ended in the except clause
  cur,            \* the page whose future main is consuming, 0 if none
  raised,         \* an exception is propagating out of the write path
  stmts,          \* per page: INSERT statements that completed
  db_lock,        \* db_lock is held
  openConns,      \* open DuckDB connections
  total_pages, total_urls, total_in_db,
  prevCount       \* total_in_db as the previous run reported it

vars == <<cfg, run, pc, hasTable, rows, seq, rows0, nextPage, status, outcome,
          result, submits, gets, body, consumed, failed, cur, raised, stmts,
          db_lock, openConns, total_pages, total_urls, total_in_db, prevCount>>

configVars == <<cfg, run, prevCount>>
storeVars == <<hasTable, rows, seq, rows0>>
poolVars == <<status, outcome, result, submits, gets, body>>
mainVars == <<pc, nextPage, consumed, failed, cur, raised, stmts, db_lock,
              openConns, total_pages, total_urls, total_in_db>>

NoResult == [list_url |-> <<>>, article_urls |-> <<>>]
NoBody == [kind |-> "none", doc |-> <<>>]

InRange(p) == cfg.startPage <= p /\ p <= cfg.endPage
Range == {p \in Pages : InRange(p)}
Running == {p \in Pages : status[p] = "running"}

\* The state of main and of the pool when the process starts.
FreshProcess ==
  /\ pc = "start"
  /\ nextPage = 0
  /\ status = [p \in Pages |-> "none"]
  /\ outcome = [p \in Pages |-> "none"]
  /\ result = [p \in Pages |-> NoResult]
  /\ submits = [p \in Pages |-> 0]
  /\ gets = [p \in Pages |-> 0]
  /\ body = [p \in Pages |-> NoBody]
  /\ consumed = [p \in Pages |-> 0]
  /\ stmts = [p \in Pages |-> 0]
  /\ failed = {}
  /\ cur = 0
  /\ raised = FALSE
  /\ db_lock = FALSE
  /\ openConns = 0
  /\ total_pages = 0
  /\ total_urls = 0
  /\ total_in_db = 0

Init ==
  /\ cfg \in {load_config(raw) : raw \in RawConfigs}
  /\ run = 1
  /\ prevCount = 0
  /\ \E t \in InitialTables :
       /\ rows = t
       /\ rows0 = t
       /\ seq = Len(t)
       /\ hasTable \in (IF t = <<>> THEN BOOLEAN ELSE {TRUE})
  /\ FreshProcess

\* ----------------------------------------------------------- main, 151-180
\* Mutant: CREATE OR REPLACE TABLE, the table is created anew.
CreateOrReplaceTable(has, rs) == <<>>

\* CREATE TABLE IF NOT EXISTS: an existing table keeps its rows.
CreateTableIfNotExists(has, rs) == IF has THEN rs ELSE <<>>

\* CREATE SEQUENCE / CREATE TABLE IF NOT EXISTS, total_pages, total_urls = 0.
EnsureSchema ==
  /\ pc = "start"
  /\ hasTable' = TRUE
  /\ rows' = CreateTableIfNotExists(hasTable, rows)
  /\ total_pages' = cfg.endPage - cfg.startPage + 1
  /\ total_urls' = 0
  /\ nextPage' = cfg.startPage
  /\ pc' = "submit"
  /\ UNCHANGED <<seq, rows0, consumed, failed, cur, raised, stmts, db_lock,
                 openConns, total_in_db>>
  /\ UNCHANGED <<configVars, poolVars>>

\* ----------------------------------------------------------- main, 186-188
Submit ==
  /\ pc = "submit"
  /\ nextPage <= cfg.endPage
  /\ status' = [status EXCEPT ![nextPage] = "queued"]
  /\ submits' = [submits EXCEPT ![nextPage] = @ + 1]
  /\ nextPage' = nextPage + 1
  /\ UNCHANGED <<outcome, result, gets, body>>
  /\ UNCHANGED <<pc, consumed, failed, cur, raised, stmts, db_lock, openConns,
                 total_pages, total_urls, total_in_db>>
  /\ UNCHANGED <<configVars, storeVars>>

SubmitDone ==
  /\ pc = "submit"
  /\ nextPage > cfg.endPage
  /\ pc' = "collect"
  /\ UNCHANGED <<nextPage, consumed, failed, cur, raised, stmts, db_lock,
                 openConns, total_pages, total_urls, total_in_db>>
  /\ UNCHANGED <<configVars, storeVars, poolVars>>

\* ------------------------------------------------------ worker, crawl_page
\* Mutant: a task starts whether or not a worker is free.
MayStartUnbounded(p) ==
  /\ status[p] = "queued"
  /\ \A q \in Pages : status[q] = "queued" => p <= q

\* A pool thread takes the oldest queued task when fewer than max_workers
\* tasks are running, and resolves the list URL (51-58).
MayStart(p) ==
  /\ status[p] = "queued"
  /\ \A q \in Pages : status[q] = "queued" => p <= q
  /\ Cardinality(Running) < cfg.maxWorkers

WorkerStart(p) ==
  /\ MayStart(p)
  /\ IF ResolveRaises(p, cfg.baseUrl, cfg.firstPageUrl)
     THEN /\ status' = [status EXCEPT ![p] = "done"]
          /\ outcome' = [outcome EXCEPT ![p] = "raised"]
          /\ UNCHANGED result
     ELSE /\ status' = [status EXCEPT ![p] = "running"]
          /\ result' = [result EXCEPT ![p].list_url =
                          ResolveListUrl(p, cfg.baseUrl, cfg.firstPageUrl)]
          /\ UNCHANGED outcome
  /\ UNCHANGED <<submits, gets, body>>
  /\ UNCHANGED <<configVars, storeVars, mainVars>>

\* What one GET and the parse of its body can do: the request raises
\* (timeout, connection error, non-success status); the parser raises; the
\* page has no target div; the page has a target div holding the links doc.
\* A failing request or parse may still have a body with links in it.
Responses ==
  {[kind |-> k, doc |-> d] : k \in {"reqfail", "parsefail"}, d \in {<<>>, <<LinkFull>>}}
    \cup {[kind |-> "nodiv", doc |-> <<>>]}
    \cup {[kind |-> "ok", doc |-> d] : d \in SiteDocs}

\* Mutant: the body is parsed whatever the request and the parser did.
ReturnedUnchecked(resp) == ExtractItems(resp.doc)

\* What crawl_page returns as article_items (81-130).
Returned(resp) == IF resp.kind = "ok" THEN ExtractItems(resp.doc) ELSE <<>>

\* requests.get, raise_for_status, parse, return, for a response drawn
\* from resps; the response is recorded in body when record is set.
FetchFrom(p, resps, record) ==
  /\ status[p] = "running"
  /\ \E resp \in resps :
       /\ gets' = [gets EXCEPT ![p] = @ + 1]
       /\ outcome' = [outcome EXCEPT ![p] = resp.kind]
       /\ result' = [result EXCEPT ![p].article_urls = Returned(resp)]
       /\ body' = IF record THEN [body EXCEPT ![p] = resp] ELSE body
       /\ status' = [status EXCEPT ![p] = "done"]
  /\ UNCHANGED submits
  /\ UNCHANGED <<configVars, storeVars, mainVars>>

\* Mutant: the worker writes its records to the table itself.
WorkerFetchWriting(p) ==
  /\ status[p] = "running"
  /\ \E resp \in Responses :
       /\ gets' = [gets EXCEPT ![p] = @ + 1]
       /\ outcome' = [outcome EXCEPT ![p] = resp.kind]
       /\ result' = [result EXCEPT ![p].article_urls = Returned(resp)]
       /\ status' = [status EXCEPT ![p] = "done"]
       /\ LET after == ExecuteInserts(rows, seq, Returned(resp), result[p].list_url,
                                    Len(Returned(resp)))
          IN rows' = after.rows /\ seq' = after.seq
  /\ UNCHANGED <<submits, body, hasTable, rows0>>
  /\ UNCHANGED <<configVars, mainVars>>

WorkerFetch(p) == FetchFrom(p, Responses, FALSE)

\* ----------------------------------------------------------- main, 191-215
\* Mutant: a finished future is yielded again.
YieldedAgain(p) == status[p] = "done"

\* as_completed yields each finished future once.
Yielded(p) == status[p] = "done" /\ consumed[p] = 0

\* The except clause at 214: the page is logged and skipped.
SkipPage(p) ==
  /\ failed' = failed \cup {p}
  /\ UNCHANGED total_urls

\* Mutant: the total counts a page's distinct URLs.
CountPageDistinct(p) ==
  /\ total_urls' = total_urls + Cardinality(ItemUrls(result[p].article_urls))
  /\ UNCHANGED failed

\* Line 212, reached when nothing raised.
CountPage(p) ==
  /\ total_urls' = total_urls + Len(result[p].article_urls)
  /\ UNCHANGED failed

\* Mutant: the write path is entered without taking the lock.
AcquireNothing == UNCHANGED db_lock

\* Mutant: the lock is not released when the block is left.
ReleaseNothing == UNCHANGED db_lock

\* with db_lock: the lock is taken when it is free, and released when the
\* block is left, by its end or by an exception.
Acquire ==
  /\ ~db_lock
  /\ db_lock' = TRUE

\* Mutant: the lock is given back only when the block ends without an
\* exception.
ReleaseUnlessRaised == db_lock' = raised

Release == db_lock' = FALSE

\* future.result(); an empty list skips the write path, a non-empty one
\* takes db_lock.
Consume(p) ==
  /\ pc = "collect"
  /\ Yielded(p)
  /\ consumed' = [consumed EXCEPT ![p] = @ + 1]
  /\ IF outcome[p] = "raised"
     THEN /\ SkipPage(p)
          /\ UNCHANGED <<pc, cur, db_lock>>
     ELSE IF result[p].article_urls = <<>>
     THEN /\ CountPage(p)
          /\ UNCHANGED <<pc, cur, db_lock>>
     ELSE /\ Acquire
          /\ cur' = p
          /\ pc' = "locked"
          /\ UNCHANGED <<failed, total_urls>>
  /\ UNCHANGED <<nextPage, raised, stmts, openConns, total_pages, total_in_db>>
  /\ UNCHANGED <<configVars, storeVars, poolVars>>

\* conn = duckdb.connect(db_path), inside the with block and before the try.
Connect ==
  /\ pc = "locked"
  /\ \/ /\ openConns' = openConns + 1
        /\ pc' = "insert"
        /\ UNCHANGED <<db_lock, cur, failed, total_urls>>
     \/ /\ Release
        /\ SkipPage(cur)
        /\ cur' = 0
        /\ pc' = "collect"
        /\ UNCHANGED openConns
  /\ UNCHANGED <<nextPage, consumed, raised, stmts, total_pages, total_in_db>>
  /\ UNCHANGED <<configVars, storeVars, poolVars>>

\* The loop of INSERT OR IGNORE statements and conn.commit(): k statements
\* succeed; with k below the length, statement k + 1 raises.
InsertBatch ==
  /\ pc = "insert"
  /\ \E k \in 0..Len(result[cur].article_urls) :
       LET after == ExecuteInserts(rows, seq, result[cur].article_urls,
                                   result[cur].list_url, k)
       IN /\ rows' = after.rows
          /\ seq' = after.seq
          /\ raised' = (k < Len(result[cur].article_urls))
          /\ stmts' = [stmts EXCEPT ![cur] = k]
  /\ pc' = "closing"
  /\ UNCHANGED <<hasTable, rows0>>
  /\ UNCHANGED <<nextPage, consumed, failed, cur, db_lock, openConns,
                 total_pages, total_urls, total_in_db>>
  /\ UNCHANGED <<configVars, poolVars>>

\* finally: conn.close(); db_lock is released on leaving the with block;
\* then line 212, or the except clause when the loop raised.
CloseConn ==
  /\ pc = "closing"
  /\ openConns' = openConns - 1
  /\ Release
  /\ IF raised THEN SkipPage(cur) ELSE CountPage(cur)
  /\ raised' = FALSE
  /\ cur' = 0
  /\ pc' = "collect"
  /\ UNCHANGED <<nextPage, consumed, stmts, total_pages, total_in_db>>
  /\ UNCHANGED <<configVars, storeVars, poolVars>>

\* ----------------------------------------------------------- main, 216-230
\* Mutant: the summary does not wait for the futures.
NoneAwaited == TRUE

\* as_completed is exhausted and the with block has been left: every
\* submitted future has been yielded.
AllConsumed == \A p \in Range : consumed[p] > 0

\* Every future has been yielded; the summary is printed and the table is
\* counted.
Report ==
  /\ pc = "collect"
  /\ AllConsumed
  /\ total_in_db' = Len(rows)
  /\ pc' = "done"
  /\ UNCHANGED <<nextPage, consumed, failed, cur, raised, stmts, db_lock,
                 openConns, total_pages, total_urls>>
  /\ UNCHANGED <<configVars, storeVars, poolVars>>

\* ---------------------------------------------------------- specifications
Completed == pc = "done"

Next ==
  \/ EnsureSchema
  \/ Submit
  \/ SubmitDone
  \/ \E p \in Pages : WorkerStart(p)
  \/ \E p \in Pages : WorkerFetch(p)
  \/ \E p \in Pages : Consume(p)
  \/ Connect
  \/ InsertBatch
  \/ CloseConn
  \/ Report

Spec == Init /\ [][Next]_vars

\* A second run of the program with the same configuration against the
\* database file the first run left.
Restart ==
  /\ pc = "done"
  /\ run < MaxRuns
  /\ run' = run + 1
  /\ prevCount' = total_in_db
  /\ rows0' = rows
  /\ pc' = "start"
  /\ nextPage' = 0
  /\ status' = [p \in Pages |-> "none"]
  /\ outcome' = [p \in Pages |-> "none"]
  /\ result' = [p \in Pages |-> NoResult]
  /\ submits' = [p \in Pages |-> 0]
  /\ gets' = [p \in Pages |-> 0]
  /\ body' = [p \in Pages |-> NoBody]
  /\ consumed' = [p \in Pages |-> 0]
  /\ stmts' = [p \in Pages |-> 0]
  /\ failed' = {}
  /\ total_pages' = 0
  /\ total_urls' = 0
  /\ total_in_db' = 0
  /\ UNCHANGED <<cur, raised, db_lock, openConns>>
  /\ UNCHANGED <<cfg, hasTable, rows, seq>>

\* The runs of SpecRerun: every page of 1..MaxPage, optional keys left out,
\* a database file that does not hold the table yet.
InitRerun ==
  /\ cfg = load_config([startPage |-> 1, endPage |-> MaxPage, baseUrl |-> GoodTemplate,
                        firstPageUrl |-> AbsentUrl, maxWorkers |-> 0])
  /\ run = 1
  /\ prevCount = 0
  /\ rows = <<>>
  /\ rows0 = <<>>
  /\ seq = 0
  /\ hasTable = FALSE
  /\ FreshProcess

SpecRerun == InitRerun /\ [][Next \/ Restart]_vars

\* The threads run: main, and the pool's workers while tasks are queued.
LiveSpec == Init /\ [][Next]_vars /\ WF_vars(Next)

\* The extraction on its own: one page whose response is any document of
\* Docs, recorded in body, against an empty database file.
DocResponses == Responses \cup {[kind |-> "ok", doc |-> d] : d \in Docs}

InitExtract ==
  /\ cfg = load_config([startPage |-> 1, endPage |-> 1, baseUrl |-> GoodTemplate,
                        firstPageUrl |-> AbsentUrl, maxWorkers |-> 0])
  /\ run = 1
  /\ prevCount = 0
  /\ rows = <<>>
  /\ rows0 = <<>>
  /\ seq = 0
  /\ hasTable = FALSE
  /\ FreshProcess

WorkerParse(p) == FetchFrom(p, DocResponses, TRUE)

NextExtract ==
  \/ EnsureSchema
  \/ Submit
  \/ SubmitDone
  \/ \E p \in Pages : WorkerStart(p)
  \/ \E p \in Pages : WorkerParse(p)
  \/ \E p \in Pages : Consume(p)
  \/ Connect
  \/ InsertBatch
  \/ CloseConn
  \/ Report

SpecExtract == InitExtract /\ [][NextExtract]_vars

\* ------------------------------------------------------------------ helpers
RECURSIVE SumOver(_, _)
SumOver(S, f) ==
  IF S = {} THEN 0
  ELSE LET x == CHOOSE y \in S : TRUE IN f[x] + SumOver(S \ {x}, f)

Records(p) == result[p].article_urls
RecordCount == [p \in Pages |-> Len(Records(p))]
Succeeded == Range \ failed
ExtractedUrls(S) == UNION {ItemUrls(Records(p)) : p \in S}
RowsWithUrl(u) == {i \in 1..Len(rows) : rows[i].url = u}
CountAtStart == Len(rows0)

\* No URL occurs twice among the records of the pages of the range.
NoUrlTwice ==
  /\ \A p \in Range : Cardinality(ItemUrls(Records(p))) = Len(Records(p))
  /\ \A p, q \in Range : p # q => ItemUrls(Records(p)) \cap ItemUrls(Records(q)) = {}

\* ----------------------------------------------------------------------- C1
UniqueUrls == \A u \in RowUrls(rows) : Cardinality(RowsWithUrl(u)) = 1
RowsKept == \A i \in 1..Len(rows) : i <= Len(rows') /\ rows'[i] = rows[i]

\* C1: the table never holds two rows with the same url, and no step changes
\* or removes a row that is in the table: a record whose url is stored is
\* dropped, its row keeping id, title, publish_time and list_url.
C1_OneRowPerUrl == []UniqueUrls /\ [][RowsKept]_vars

\* A batch has been executed in which a record differing from the stored row
\* of its url was dropped.
C1_Witness ==
  /\ pc = "closing"
  /\ ~raised
  /\ \E k \in 1..Len(Records(cur)), i \in 1..Len(rows) :
       /\ rows[i].url = Records(cur)[k].url
       /\ rows[i].title # Records(cur)[k].title
       /\ rows[i].list_url # result[cur].list_url

\* ----------------------------------------------------------------------- C2
InWritePath == pc \in {"locked", "insert", "closing"}
WriteConnOpen == pc \in {"insert", "closing"}

\* C2: at most one connection is open; a connection is open only between
\* the connect and the close of one page's batch, with db_lock held
\* throughout; the table changes only in a step taken with db_lock held
\* before and after, for the one page being consumed.
C2_SingleWriter ==
  /\ [](openConns <= 1 /\ (openConns = 1 <=> WriteConnOpen))
  /\ [](InWritePath => db_lock /\ cur \in Range)
  /\ [][rows' # rows => db_lock /\ db_lock' /\ openConns = 1 /\ cur' = cur]_vars

\* A second page's batch is being written after the first page's rows are in.
C2_Witness ==
  /\ pc = "closing"
  /\ db_lock
  /\ openConns = 1
  /\ \E p \in Range \ {cur} : consumed[p] = 1 /\ Records(p) # <<>> /\ p \notin failed
  /\ Len(rows) > Len(rows0) + 1

\* ----------------------------------------------------------------------- C3
Delta == total_in_db - CountAtStart

SecondRunDone == Completed /\ run = 2

\* C4 as stated: the count the second run reports is the count the first run
\* reported.
C4_Original == SecondRunDone => total_in_db = prevCount

\* C4, amended: the count is unchanged by a second run all of whose pages
\* return only URLs that were in the table when it started.
C4_RerunKeepsCount ==
  SecondRunDone /\ ExtractedUrls(Range) \subseteq RowUrls(rows0) =>
    total_in_db = prevCount

\* A second run that extracted records, all of them stored by the first.
C4_Witness ==
  /\ SecondRunDone
  /\ failed = {}
  /\ prevCount > 0
  /\ total_urls > 1
  /\ ExtractedUrls(Range) \subseteq RowUrls(rows0)

\* ----------------------------------------------------------------------- C5
FetchFailed(p) == outcome[p] \in {"reqfail", "parsefail"}
FetchSucceeded(p) == outcome[p] \in {"ok", "nodiv"}
Stored(p) == ItemUrls(Records(p)) \subseteq RowUrls(rows)

\* C5 as stated: a page whose fetch or parse failed has zero records, and
\* at completion every URL of every page whose fetch and parse succeeded is
\* in the table.
C5_Original ==
  /\ \A p \in Pages : FetchFailed(p) => Records(p) = <<>>
  /\ Completed => \A p \in Range : FetchSucceeded(p) => Stored(p)

\* C5, amended: a page whose fetch or parse failed has zero records, and at
\* completion every URL of every page whose fetch and parse succeeded and
\* whose consumption did not raise is in the table.
C5_FailureIsolation ==
  /\ \A p \in Pages : FetchFailed(p) => Records(p) = <<>>
  /\ Completed => \A p \in Range : FetchSucceeded(p) /\ p \notin failed => Stored(p)

\* A run in which one page failed and another page's records were stored.
C5_Witness ==
  /\ Completed
  /\ \E p, q \in Range :
       /\ FetchFailed(p)
       /\ outcome[q] = "ok" /\ Records(q) # <<>> /\ q \notin failed
       /\ consumed[p] = 1 /\ consumed[q] = 1

\* ----------------------------------------------------------------------- C6
RunningState == pc \notin {"start", "done"}

\* C6: a run that has started fetching reaches COMPLETED, whatever pages
\* fail to fetch, to parse or to be consumed.
C6_RunCompletes == RunningState ~> Completed

\* A completed run with a failed fetch and a failed consumption.
C6_Witness ==
  /\ Completed
  /\ \E p \in Range : FetchFailed(p)
  /\ \E q \in failed : Records(q) # <<>>

\* ----------------------------------------------------------------------- C7
Submitted == pc \in {"collect", "locked", "insert", "closing", "done"}

\* C7: a page is submitted at most once and only if it is in the range, each
\* page of the range has been submitted once when the submit loop is over,
\* a task issues at most one GET, a future is consumed at most once, and at
\* completion each page of the range has been consumed once.
C7_OncePerPage ==
  /\ \A p \in Pages :
       /\ submits[p] <= 1 /\ gets[p] <= submits[p] /\ consumed[p] <= submits[p]
       /\ submits[p] = 1 => InRange(p)
  /\ Submitted => \A p \in Range : submits[p] = 1
  /\ Completed => \A p \in Range : consumed[p] = 1

\* A completed run in which a page's only GET failed.
C7_Witness ==
  /\ Completed
  /\ \E p \in Range : outcome[p] = "reqfail" /\ gets[p] = 1 /\ consumed[p] = 1
  /\ \E q \in Range : outcome[q] = "ok"

\* ----------------------------------------------------------------------- C8
\* C8: at most maxWorkers fetches are in progress, maxWorkers being the
\* configured value or 10 when the key is left out.
C8_BoundedPool ==
  /\ Cardinality(Running) <= cfg.maxWorkers
  /\ cfg.maxWorkers \in (1..MaxWorkers) \cup {10}

\* Every worker is busy and a queued task waits.
C8_Witness ==
  /\ Cardinality(Running) = cfg.maxWorkers
  /\ \E p \in Pages : status[p] = "queued"

\* ----------------------------------------------------------------------- C9
\* C9 as stated: the reported total is the number of records over all the
\* pages of the range.
C9_Original == Completed => total_urls = SumOver(Range, RecordCount)

\* C9, amended: the reported total is the number of records, duplicates and
\* stored URLs included, over the pages whose consumption did not raise.
C9_TotalIsPreDedup == Completed => total_urls = SumOver(Succeeded, RecordCount)

\* A total that counts a URL twice, in a run that skipped a page.
C9_Witness ==
  /\ Completed
  /\ \E q \in failed : Records(q) # <<>>
  /\ total_urls > Cardinality(ExtractedUrls(Succeeded))
  /\ total_urls > Delta

\* ---------------------------------------------------------------------- C10
NewUrls(S) == ExtractedUrls(S) \ RowUrls(rows0)

\* C10 as stated: at completion the table's URLs are those it held at the
\* start and those the pages extracted, the count has grown by the number
\* of extracted URLs not stored before, and every page of the range counts
\* as attempted.
C10_Original ==
  Completed /\ Range # {} =>
    /\ RowUrls(rows) = RowUrls(rows0) \cup ExtractedUrls(Range)
    /\ Delta = Cardinality(NewUrls(Range))
    /\ total_pages = Cardinality(Range)

\* C10, amended: at completion the table holds the URLs it held at the
\* start and those of the pages whose consumption did not raise, and no URL
\* that is neither stored before nor extracted; the count has grown by the
\* number of URLs added; every page of a non-empty range counts as attempted.
C10_StoreIsUnion ==
  Completed /\ Range # {} =>
    /\ RowUrls(rows0) \cup ExtractedUrls(Succeeded) \subseteq RowUrls(rows)
    /\ RowUrls(rows) \subseteq RowUrls(rows0) \cup ExtractedUrls(Range)
    /\ Delta = Cardinality(RowUrls(rows) \ RowUrls(rows0))
    /\ failed = {} => Delta = Cardinality(NewUrls(Range))
    /\ total_pages = Cardinality(Range)

\* Two records of which one was stored before the run, and a page that timed
\* out: total 2, delta 1, every page counted.
C10_Witness ==
  /\ Completed
  /\ failed = {}
  /\ \E p \in Range : outcome[p] = "reqfail"
  /\ \E q \in Range : Len(Records(q)) = 2
  /\ total_urls = 2
  /\ Delta = 1
  /\ total_pages = Cardinality(Range)
  /\ total_pages > 1

\* ------------------------------------------------------------------- C11
\* The records of page p whose INSERT statement completed before the write
\* path was left.
Inserted(p) == SubSeq(Records(p), 1, stmts[p])
SkippedWithRecords == {p \in failed : Records(p) # <<>>}

\* C11: an error raised while one page's result is consumed is caught and
\* the page is skipped: it adds nothing to the records-extracted total, none
\* of its records are added to the table, and every other page's result is
\* still consumed.
C11_Original ==
  Completed =>
    /\ \A p \in Range : consumed[p] = 1
    /\ total_urls = SumOver(Succeeded, RecordCount)
    /\ RowUrls(rows) \subseteq RowUrls(rows0) \cup ExtractedUrls(Succeeded)

\* The parts of C11 that do not concern the table: the error is caught, the
\* page counts for nothing, the lock is free again and every page of the
\* range is consumed.
C11_SkippedAndContinued ==
  Completed =>
    /\ \A p \in Range : consumed[p] = 1
    /\ total_urls = SumOver(Succeeded, RecordCount)
    /\ ~db_lock /\ openConns = 0

\* The first INSERT of a page completed, the second raised, and the run
\* went on to store another page.
C11_PartialBatch ==
  /\ Completed
  /\ \E p \in failed : stmts[p] = 1 /\ Len(Records(p)) = 2
  /\ \E q \in Succeeded : Records(q) # <<>> /\ Stored(q)

\* ------------------------------------------------------------------- C12
\* The address the task of page p requested and returns; crawl_page holds
\* one list_url for both.
ListUrlOf(p) == result[p].list_url
Resolved(p) == status[p] = "running" \/ (status[p] = "done" /\ outcome[p] # "raised")
OverrideSet == cfg.firstPageUrl = FirstUrl
TemplateAddress(p) == <<"list_", DigitStr[p], ".html">>

\* C12: the address of page 1 is the configured first-page address when one
\* is configured; every other page, and page 1 without such an address, has
\* the template with the page number filled in. A task that has ended
\* returns that address whether the fetch succeeded or failed, and the rows
\* written for a page carry it.
C12_ListUrl ==
  /\ \A p \in Pages : Resolved(p) =>
       /\ (p = 1 /\ OverrideSet) => ListUrlOf(p) = <<"index.html">>
       /\ ~(p = 1 /\ OverrideSet) => ListUrlOf(p) = TemplateAddress(p)
  /\ \A i \in (Len(rows0) + 1)..Len(rows) :
       \E q \in Range : /\ rows[i].url \in ItemUrls(Records(q))
                        /\ rows[i].list_url = ListUrlOf(q)

\* Page 1 ended in a request failure and returns the first-page address;
\* page 2 was fetched from the template address and returned records.
C12_Witness ==
  /\ OverrideSet
  /\ outcome[1] = "reqfail" /\ ListUrlOf(1) = FirstUrl
  /\ outcome[2] = "ok" /\ ListUrlOf(2) = <<"list_", "2", ".html">>
  /\ Records(2) # <<>>

\* ------------------------------------------------------------------- C13
SchemaStep == pc = "start" /\ pc' # "start"
NothingSubmitted == \A p \in Pages : submits[p] = 0 /\ status[p] = "none"
RowsOfStartKept ==
  /\ Len(rows0) <= Len(rows)
  /\ \A i \in 1..Len(rows0) : rows[i] = rows0[i]

\* C13: the table and its sequence are created once in a run, before the
\* first page is submitted, and creating them over an existing table
\* removes and changes nothing: the rows present when the run started are in
\* the table, as they were, for the rest of the run.
C13_SchemaOnceAndFirst ==
  /\ [](pc = "start" => NothingSubmitted)
  /\ [](pc # "start" => hasTable /\ RowsOfStartKept)
  /\ [][SchemaStep => /\ pc' = "submit"
                      /\ NothingSubmitted'
                      /\ rows' = rows /\ seq' = seq]_vars
  /\ [][pc # "start" /\ run' = run => pc' # "start" /\ hasTable']_vars

\* A second run over the table the first run filled has completed and
\* added a row to the rows it found.
C13_Witness ==
  /\ Completed
  /\ run = 2
  /\ rows0 # <<>>
  /\ Len(rows) > Len(rows0)

\* ------------------------------------------------------------------- C14
\* Of the addresses that occur in Links, Url1 and Url2 are the ones on the
\* news host with a numeric identifier and the .html suffix, and UrlNewline
\* is such an address followed by a newline, which the pattern matches too.
Qualifying(link) == link.href \in Urls \cup {UrlNewline}
QualifyingLinks(p) == SelectSeq(body[p].doc, Qualifying)
Parsed(p) == status[p] = "done" /\ body[p].kind = "ok"

NoTitle(link) == link.h5 = NoElem
NoTime(link) ==
  /\ link.vis \in {NoElem, ""}
  /\ ~(link.box.div /\ link.box.span # NoElem /\ link.box.p # NoElem)

\* C15: a qualifying link without the title element, or without usable time
\* elements, still gives its one record, with the empty string in that
\* field and the other fields as found; the page does not fail.
C15_DegradedFields ==
  \A p \in Pages : Parsed(p) =>
    /\ outcome[p] = "ok"
    /\ Len(Records(p)) = Len(QualifyingLinks(p))
    /\ \A i \in 1..Len(QualifyingLinks(p)) :
         LET link == QualifyingLinks(p)[i]
             item == Records(p)[i]
         IN /\ item.url = link.href
            /\ NoTitle(link) => item.title = ""
            /\ ~NoTitle(link) => item.title \in {"T1", "T2", "T5"}
            /\ NoTime(link) => item.publish_time = <<>>
            /\ ~NoTime(link) =>
                 item.publish_time \in {<<"2024-01-05">>, <<"2024.01", ".", "06">>}

\* A link with neither title nor time followed by one with a title and half
\* a time box: two records, the first with an empty title, both with an
\* empty time.
C15_Witness ==
  /\ Parsed(1)
  /\ body[1].doc = <<LinkBare, LinkPartialBox>>
  /\ Len(Records(1)) = 2
  /\ Records(1)[1].title = "" /\ Records(1)[1].publish_time = <<>>
  /\ Records(1)[2].title = "T5" /\ Records(1)[2].publish_time = <<>>

\* ------------------------------------------------------------------- C16
TasksSubmitted == SumOver(Pages, submits)

\* C16: the number of pages reported as attempted at completion is the
\* number of fetch tasks that were submitted, whatever start_page and
\* end_page are, a range with end_page below start_page included.
C16_Original == Completed => total_pages = TasksSubmitted

\* What holds of the report: it is end_page - start_page + 1, which is the
\* number of tasks submitted when end_page >= start_page - 1.
C16_PagesReported ==
  Completed =>
    /\ total_pages = cfg.endPage - cfg.startPage + 1
    /\ cfg.endPage >= cfg.startPage - 1 => total_pages = TasksSubmitted

\* A run over a range whose end lies two below its start: no task was
\* submitted and a negative number of pages is reported.
C16_NegativePages ==
  /\ Completed
  /\ cfg.endPage < cfg.startPage - 1
  /\ TasksSubmitted = 0
  /\ total_pages < 0

\* ------------------------------------------------------------------- C17
TasksFinished == \A p \in Range : status[p] = "done" /\ consumed[p] = 1
WritePathLeft == ~InWritePath /\ cur = 0 /\ ~db_lock /\ openConns = 0

\* C17: the final count is taken after every fetch task has finished and
\* every page's result has been consumed, with no batch insert under way,
\* no write connection open and the lock free; the count reported is the
\* number of rows the table holds after all the writes of the run.
C17_CountAfterWrites ==
  Completed => TasksFinished /\ WritePathLeft /\ total_in_db = Len(rows)

\* Both pages of the range were written, and the count reported includes
\* the rows of both.
C17_Witness ==
  /\ Completed
  /\ Range = {1, 2}
  /\ failed = {}
  /\ \A p \in Range : Records(p) # <<>> /\ stmts[p] = Len(Records(p))
  /\ total_in_db = CountAtStart + 2

\* ------------------------------------------------------------------- C18
\* A step of a pool worker: a queued task starts, or a running task ends.
WorkerStep == \E p \in Pages : status[p] \in {"queued", "running"} /\ status'[p] # status[p]
StoreAndLock == <<hasTable, rows, seq, db_lock, openConns>>

\* C18: a worker's step leaves the table, its sequence, the lock and the
\* connections as they are, and can be taken while the lock is held; the
\* table changes in steps of main only, inside its write path.
C18_WorkersLeaveStore ==
  /\ [][WorkerStep => UNCHANGED StoreAndLock]_vars
  /\ [][rows' # rows \/ seq' # seq => ~WorkerStep /\ pc = "insert" /\ db_lock]_vars
  /\ [](\A p \in Pages : status[p] = "running" => ENABLED WorkerFetch(p))

\* Main holds the lock with its connection open for one page while the
\* task of another page is being fetched.
C18_Witness ==
  /\ pc = "insert"
  /\ db_lock
  /\ \E p \in Range \ {cur} : status[p] = "running"

\* ------------------------------------------------------------------- C19
\* C19: whenever main is outside the write path, after a commit and after
\* an exception alike, no write connection is open and db_lock is free, so
\* the batch of a later page can be written after a failed one; consuming a
\* page without records takes no lock and opens no connection.
C19_LockAndConnReturned ==
  /\ [](~InWritePath => ~db_lock /\ openConns = 0 /\ cur = 0)
  /\ [](pc = "locked" => Records(cur) # <<>> /\ db_lock /\ openConns = 0)
  /\ [][(\E p \in Pages : consumed'[p] # consumed[p] /\ Records(p) = <<>>)
          => UNCHANGED <<db_lock, openConns, pc>>]_vars

\* The batch of one page raised, and main has the lock and an open
\* connection again for the next page.
C19_Witness ==
  /\ pc = "insert"
  /\ db_lock /\ openConns = 1
  /\ \E q \in failed : Records(q) # <<>> /\ outcome[q] = "ok"
  /\ cur \notin failed

\* ------------------------------------------------------------------- C20
\* The completion order is not among the inputs of a run: these are the
\* configuration, the table at the start, what each task returned, and which
\* statements of main's write path completed.
StoredUrlsByInputs ==
  RowUrls(rows0) \cup UNION {ItemUrls(Inserted(p)) : p \in Range}
TotalByInputs == SumOver(Succeeded, RecordCount)
FromPage(row, p) ==
  \E k \in 1..Len(Records(p)) :
    /\ row.url = Records(p)[k].url
    /\ row.title = Records(p)[k].title
    /\ row.publish_time = Records(p)[k].publish_time
    /\ row.list_url = ListUrlOf(p)
AppendedFromCur ==
  /\ RowsKept
  /\ \A i \in (Len(rows) + 1)..Len(rows') :
       /\ rows'[i].url \notin RowUrls(rows)
       /\ FromPage(rows'[i], cur)

\* C20: at completion the set of stored URLs and the records-extracted total
\* are determined by the run's inputs, whatever the order in which the tasks
\* completed and were consumed; a row is written by the first consumed page
\* that holds its URL, with that page's title, time and list address, and no
\* later page changes it.
C20_OrderIndependent ==
  /\ [](Completed => /\ RowUrls(rows) = StoredUrlsByInputs
                     /\ total_urls = TotalByInputs)
  /\ [][AppendedFromCur]_vars

\* Both pages hold the same URL and page 2 was consumed first: the row
\* carries the list address of page 2.
C20_Witness ==
  /\ Completed
  /\ Range = {1, 2}
  /\ failed = {}
  /\ \E i \in 1..Len(rows) :
       /\ i > Len(rows0)
       /\ rows[i].url \in ItemUrls(Records(1)) \cap ItemUrls(Records(2))
       /\ rows[i].list_url = ListUrlOf(2)
       /\ ListUrlOf(2) # ListUrlOf(1)

====
